---- MODULE Spec2Model ----
(***************************************************************************)
(* Verification workflow of AgriPlot (Django app "listings"):              *)
(*   - VerificationStatus rows (one per landowner / agent / plot),         *)
(*   - VerificationTask rows and the VerificationService that creates,     *)
(*     assigns and completes them,                                         *)
(*   - the edit_plot view that resets a plot's verification,               *)
(*   - the post_save signal and the ArdhisasaVerificationService thread.   *)
(* Database tables are sequences of rows; a row's primary key is its       *)
(* index.  Each request handler is one action, except where the source     *)
(* runs concurrently with other requests by design: the background thread  *)
(* of signals.py, the count-then-advance of                                *)
(* check_plot_verification_completion, and get_or_create on                *)
(* VerificationTask under concurrent requests.                             *)
(***************************************************************************)
EXTENDS Integers, Sequences, FiniteSets, TLC

\* ------------------------------------------------------------------ bounds
MaxPlots == 1
MaxProfiles == 1
MaxRequests == 2
MaxCompleting == 1

PlotIds == 1..MaxPlots
\* requests that may be inside create_verification_tasks at the same time
RequestIds == 1..MaxRequests
\* of these, the requests that may be inside complete_task at the same time
CompletingIds == { r \in RequestIds : r <= MaxCompleting }

\* ------------------------------------------------- program constants, inputs
SURVEYOR_AREA == 50
MAX_AREA == 100000

STAGES ==
  << "document_uploaded", "api_verification_started", "title_search_completed",
     "owner_verified", "encumbrance_check", "physical_location_verified",
     "admin_review", "approved", "rejected" >>

TASK_TYPE_CHOICES == << "document_review", "extension_review", "surveyor_inspection" >>

\* DateTimeFields of VerificationStatus; a row records which of them are non-null
TimestampFields ==
  { "document_uploaded_at", "api_started_at", "title_search_at", "owner_verified_at",
    "admin_review_at", "approved_at", "rejected_at" }

ProfileKinds == { "landownerprofile", "agent" }

None == "None"
Staff == { "staff1" }
Owner == "owner"
Titles == { "Farm A", "Farm B" }
Areas == { 10, 80 }
LandTypes == { "agricultural", "commercial" }
Notes == { "", "see notes" }
KENYA_COUNTIES == { "Kiambu", "Nakuru" }
KENYA_SUB_COUNTIES == [ c \in KENYA_COUNTIES |->
                          IF c = "Kiambu" THEN { "Thika", "Ruiru" } ELSE { "Naivasha" } ]
AllSubCounties == UNION { KENYA_SUB_COUNTIES[c] : c \in KENYA_COUNTIES }
FreeLocations == { "Kitale, Trans-Nzoia County" }

VARIABLES
  plots,               \* Plot table: plot id -> row
  profiles,            \* LandownerProfile and Agent rows, in order of creation
  verificationStatus,  \* VerificationStatus table
  verificationTask,    \* VerificationTask table
  verificationLog,     \* VerificationLog rows inserted by the step that ran last; the
                       \* table is insert-only and no handler reads it, so the rows of
                       \* earlier steps are not carried along
  thread,              \* background threads of signals.start_verification, per profile
  request,             \* requests in flight inside VerificationService
  notifications,       \* Notification rows inserted by the step that ran last
  returned             \* how the VerificationService call of the step that ran last ended

vars == << plots, profiles, verificationStatus, verificationTask, verificationLog,
           thread, request, notifications, returned >>

\* ------------------------------------------------------------- small helpers
NoDetails == << >>

\* a text value of the stage_details JSON object
Text(s) == [ text |-> s ]

SeqToSet(s) == { s[i] : i \in 1..Len(s) }

RECURSIVE SelectIdx(_, _, _)
\* indices i of s, ascending, with Keep[i]
SelectIdx(n, from, Keep) ==
  IF from > n THEN << >>
  ELSE IF Keep[from] THEN << from >> \o SelectIdx(n, from + 1, Keep)
       ELSE SelectIdx(n, from + 1, Keep)

Min(S) == CHOOSE x \in S : \A y \in S : x <= y

IdleRequest ==
  [ pc |-> "idle", plot |-> 0, vtype |-> 0, found |-> FALSE, tasks_created |-> << >>,
    verification_id |-> 0, loaded |-> << >> ]

\* no VerificationService call was made by the step
NoCall == [ op |-> "", kind |-> "", value |-> "", list |-> << >> ]

\* =================================================== models.VerificationStatus
\* rows of the table that belong to subject (ct, oid), by ascending primary key
StatusIdsFor(ct, oid) ==
  { i \in 1..Len(verificationStatus) :
      verificationStatus[i].content_type = ct /\ verificationStatus[i].object_id = oid }

\* stamped holds the timestamp fields that are set; restamped holds those of them whose
\* value is no longer the time of their first stamping, timezone.now() having been
\* written to the field while it was set
NewVerificationStatus(ct, oid, stage, stamped, details) ==
  [ content_type |-> ct, object_id |-> oid, current_stage |-> stage,
    stage_details |-> details, is_complete |-> FALSE, api_responses |-> << >>,
    stamped |-> stamped, restamped |-> {} ]

\* setattr(v, field, timezone.now())
Stamp(v, field) ==
  [ v EXCEPT !.stamped = @ \cup { field },
             !.restamped = IF field \in v.stamped THEN @ \cup { field } ELSE @ ]

\* f"{stage}_at", the attribute name update_stage probes with hasattr
StageAt(stage) ==
  CASE stage = "document_uploaded" -> "document_uploaded_at"
    [] stage = "api_verification_started" -> "api_verification_started_at"
    [] stage = "title_search_completed" -> "title_search_completed_at"
    [] stage = "owner_verified" -> "owner_verified_at"
    [] stage = "encumbrance_check" -> "encumbrance_check_at"
    [] stage = "physical_location_verified" -> "physical_location_verified_at"
    [] stage = "admin_review" -> "admin_review_at"
    [] stage = "approved" -> "approved_at"
    [] stage = "rejected" -> "rejected_at"
    [] OTHER -> "no_such_field"

\* VerificationStatus.update_stage on an in-memory object; self.save() is the caller's
\* write.  details is a dict, NoDetails when the argument is omitted or empty.
update_stage(v, stage, details) ==
  LET w == IF StageAt(stage) \in TimestampFields THEN Stamp(v, StageAt(stage)) ELSE v
  IN  [ w EXCEPT
          !.current_stage = stage,
          !.stage_details = IF DOMAIN details = {} THEN @ ELSE (stage :> details) @@ @,
          !.is_complete = IF stage = "approved" THEN TRUE ELSE @ ]

\* VerificationStatus.add_api_response on an in-memory object
add_api_response(v, response_data) ==
  [ v EXCEPT !.api_responses = Append(@, response_data) ]

\* plot.verification.first(): the plot's row with the lowest primary key, 0 if none
VerificationFirst(p) ==
  IF StatusIdsFor("plot", p) = {} THEN 0 ELSE Min(StatusIdsFor("plot", p))

\* get_or_create written as a plain create: a row is added whatever the table holds
create_status(table, ct, oid, defaults) ==
  [ table |-> Append(table, defaults), id |-> Len(table) + 1,
    created |-> TRUE, raised |-> FALSE ]

\* VerificationStatus.objects.get_or_create(content_type, object_id, defaults):
\* the table after the call and the primary key of the row it returns.
\* More than one matching row makes get() raise MultipleObjectsReturned.
get_or_create_status(table, ct, oid, defaults) ==
  LET ids == { i \in 1..Len(table) :
                 table[i].content_type = ct /\ table[i].object_id = oid }
  IN  IF ids = {} THEN [ table |-> Append(table, defaults), id |-> Len(table) + 1,
                         created |-> TRUE, raised |-> FALSE ]
      ELSE IF Cardinality(ids) = 1
           THEN [ table |-> table, id |-> Min(ids), created |-> FALSE, raised |-> FALSE ]
           ELSE [ table |-> table, id |-> 0, created |-> FALSE, raised |-> TRUE ]

\* ========================================================= forms.PlotForm
\* the listing the posted forms are variations of
BaseForm ==
  [ title |-> "Farm A", county |-> "Kiambu", subcounty |-> "Thika",
    location |-> "Kitale, Trans-Nzoia County", area |-> 10, land_type |-> "agricultural",
    listing_type |-> "sale", sale_price |-> 100, lease_price_yearly |-> 0,
    lease_price_monthly |-> 0, files |-> FALSE ]

\* the posted forms the model draws from: BaseForm and its variations in one form
\* field (county and sub-county, listing type and prices vary together where the
\* form's validation ties them); a price of 0 stands for an empty price field
PlotForms ==
  { BaseForm }
  \cup { [ BaseForm EXCEPT !.title = t ] : t \in Titles }
  \cup { [ BaseForm EXCEPT !.subcounty = sc ] : sc \in AllSubCounties }
  \cup { [ BaseForm EXCEPT !.county = "Nakuru", !.subcounty = "Naivasha" ] }
  \cup { [ BaseForm EXCEPT !.area = a ] : a \in Areas }
  \cup { [ BaseForm EXCEPT !.land_type = lt ] : lt \in LandTypes }
  \cup { [ BaseForm EXCEPT !.sale_price = sp ] : sp \in { 0, 100, 200 } }
  \cup { [ BaseForm EXCEPT !.listing_type = "lease", !.sale_price = 0,
                           !.lease_price_yearly = 100 ],
         [ BaseForm EXCEPT !.listing_type = "lease", !.sale_price = 0,
                           !.lease_price_monthly = 10 ] }
  \cup { [ BaseForm EXCEPT !.files = TRUE ] }

\* PlotForm.clean together with Plot.clean: the form has no errors
PlotForm_is_valid(f) ==
  /\ f.subcounty \in KENYA_SUB_COUNTIES[f.county]
  /\ f.listing_type \in { "sale", "both" } => f.sale_price # 0
  /\ f.listing_type \in { "lease", "both" } =>
       (f.lease_price_monthly # 0 \/ f.lease_price_yearly # 0)
  /\ f.area > 0 /\ f.area <= MAX_AREA

\* a location text: "<county> - <subcounty>" as PlotForm.clean composes it, or free text
DerivedLocation(county, subcounty) == [ county |-> county, subcounty |-> subcounty, text |-> "" ]
FreeLocation(text) == [ county |-> "", subcounty |-> "", text |-> text ]

\* cleaned_data['location'] = f"{county} - {subcounty}": the posted text is replaced
CleanedLocation(f) == DerivedLocation(f.county, f.subcounty)

\* cleaned_data.get('price'): set from sale_price when there is one, else absent (-1)
CleanedPrice(f) == IF f.sale_price # 0 THEN f.sale_price ELSE -1

\* PlotForm.save: the legacy price field
SavedPrice(f) ==
  IF f.sale_price # 0 THEN f.sale_price
  ELSE IF f.lease_price_yearly # 0 THEN f.lease_price_yearly
  ELSE IF f.lease_price_monthly # 0 THEN f.lease_price_monthly * 12
  ELSE 0

\* the Plot row PlotForm.save writes
SavedPlot(f) ==
  [ title |-> f.title, county |-> f.county, subcounty |-> f.subcounty,
    location |-> CleanedLocation(f), area |-> f.area, land_type |-> f.land_type,
    price |-> SavedPrice(f) ]

\* ============================================== VerificationService (tasks)
NewTask(p, vtype) ==
  [ plot |-> p, verification_type |-> vtype, status |-> "pending",
    assigned_to |-> None, approved |-> None, notes |-> "" ]

\* the value an optional boolean takes in a row: "true", "false" or None
Flag(b) == IF b THEN "true" ELSE "false"

TaskIdsFor(table, p, vtype) ==
  { i \in 1..Len(table) : table[i].plot = p /\ table[i].verification_type = vtype }

\* the three blocks with the surveyor's written as plot.area >= 50
ApplicableTypes_from_50(plot) ==
  << "document_review" >>
  \o (IF plot.land_type = "agricultural" THEN << "extension_review" >> ELSE << >>)
  \o (IF plot.area >= SURVEYOR_AREA THEN << "surveyor_inspection" >> ELSE << >>)

\* the task types create_verification_tasks asks for, in the order of its three blocks
ApplicableTypes(plot) ==
  << "document_review" >>
  \o (IF plot.land_type = "agricultural" THEN << "extension_review" >> ELSE << >>)
  \o (IF plot.area > SURVEYOR_AREA THEN << "surveyor_inspection" >> ELSE << >>)

RECURSIVE GetOrCreateTasks(_, _, _, _)
\* the get_or_create calls of create_verification_tasks from the k-th type on
GetOrCreateTasks(acc, p, types, k) ==
  IF k > Len(types) \/ acc.raised THEN acc
  ELSE LET ids == TaskIdsFor(acc.table, p, types[k])
       IN  GetOrCreateTasks(
             IF ids = {}
             THEN [ table |-> Append(acc.table, NewTask(p, types[k])),
                    tasks_created |-> Append(acc.tasks_created, types[k]),
                    raised |-> FALSE ]
             ELSE IF Cardinality(ids) = 1 THEN acc
                  ELSE [ acc EXCEPT !.raised = TRUE ],
             p, types, k + 1)

LogEntry(p, by, vtype, comment) ==
  [ plot |-> p, verified_by |-> by, verification_type |-> vtype, comment |-> comment ]

\* VerificationService.create_verification_tasks(plot) run without interruption:
\* the tables after the call and the list it returns
create_verification_tasks(table, log, p, plot) ==
  LET r == GetOrCreateTasks([ table |-> table, tasks_created |-> << >>, raised |-> FALSE ],
                            p, ApplicableTypes(plot), 1)
  IN  [ table |-> r.table,
        log |-> IF r.raised THEN log
                ELSE Append(log, LogEntry(p, None, "system",
                                          [ kind |-> "created", items |-> r.tasks_created ])),
        tasks_created |-> r.tasks_created,
        raised |-> r.raised ]

\* the count query written with status = 'pending' alone
PendingTasks_pending_only(table, p) ==
  { i \in 1..Len(table) : table[i].plot = p /\ table[i].status = "pending" }

\* the plot's tasks with status pending or in_progress
PendingTasks(table, p) ==
  { i \in 1..Len(table) :
      table[i].plot = p /\ table[i].status \in { "pending", "in_progress" } }

\* ================================================================== Init
Init ==
  /\ plots = << >>
  /\ profiles = << >>
  /\ verificationStatus = << >>
  /\ verificationTask = << >>
  /\ verificationLog = << >>
  /\ thread = << >>
  /\ request = [ r \in RequestIds |-> IdleRequest ]
  /\ notifications = << >>
  /\ returned = NoCall

NextPlotId == Len(plots) + 1

\* ===================================================== views.add_plot (POST)
\* the defaults add_plot passes to get_or_create; of stage_details the keys that
\* name the creator are kept (the others copy fields of the plot)
AddPlotDefaults(p) ==
  NewVerificationStatus("plot", p, "document_uploaded", { "document_uploaded_at" },
                        ("created_by" :> Text(Owner)))

\* status_ok = FALSE: the get_or_create raises and the view keeps the plot
add_plot(f, status_ok) ==
  /\ NextPlotId \in PlotIds
  /\ PlotForm_is_valid(f)
  /\ plots' = Append(plots, SavedPlot(f))
  /\ verificationStatus' =
       IF status_ok
       THEN get_or_create_status(verificationStatus, "plot", NextPlotId,
                                 AddPlotDefaults(NextPlotId)).table
       ELSE verificationStatus
  /\ verificationLog' = << >>
  /\ notifications' = << >>
  /\ returned' = NoCall
  /\ UNCHANGED << profiles, verificationTask, thread, request >>

\* ============================================ admin.PlotAdmin.save_model
\* the defaults of the admin, the review view and the repair paths
PlainDefaults(p, stage) ==
  NewVerificationStatus("plot", p, stage, { "document_uploaded_at" }, NoDetails)

\* the admin form has no county or sub-county field: location is free text.
\* change = FALSE adds the plot obj, change = TRUE overwrites plot p with obj.
PlotAdmin_save_model(p, obj, change) ==
  /\ IF change THEN p \in 1..Len(plots) ELSE p = NextPlotId /\ p \in PlotIds
  /\ plots' = IF change THEN [ plots EXCEPT ![p] = obj ] ELSE Append(plots, obj)
  /\ verificationStatus' =
       IF change THEN verificationStatus
       ELSE LET r == get_or_create_status(verificationStatus, "plot", p,
                                          PlainDefaults(p, "document_uploaded"))
            IN  IF r.raised THEN verificationStatus ELSE r.table
  /\ verificationLog' = << >>
  /\ notifications' = << >>
  /\ returned' = NoCall
  /\ UNCHANGED << profiles, verificationTask, thread, request >>

\* the rows the admin add form is given
AdminPlots ==
  { [ title |-> t, county |-> None, subcounty |-> None, location |-> FreeLocation(l),
      area |-> a, land_type |-> "agricultural", price |-> 100 ] :
      t \in { "Farm A" }, l \in FreeLocations, a \in Areas }

\* ================================================= views.edit_plot
CriticalFields == << "title", "county", "subcounty", "area", "price" >>

\* the value edit_plot compares for a field: the stored one and the cleaned one
Compared(original_plot, f, field) ==
  CASE field = "title" -> << original_plot.title, f.title >>
    [] field = "county" -> << original_plot.county, f.county >>
    [] field = "subcounty" -> << original_plot.subcounty, f.subcounty >>
    [] field = "area" -> << original_plot.area, f.area >>
    [] field = "price" -> << original_plot.price, CleanedPrice(f) >>

\* critical_changes without the comparison of price
critical_changes_without_price(original_plot, f) ==
  SelectIdx(Len(CriticalFields), 1,
            [ i \in 1..Len(CriticalFields) |->
                /\ CriticalFields[i] # "price"
                /\ Compared(original_plot, f, CriticalFields[i])[1]
                     # Compared(original_plot, f, CriticalFields[i])[2] ])

\* critical_changes: the names of the compared fields that differ, in source order
critical_changes(original_plot, f) ==
  SelectIdx(Len(CriticalFields), 1,
            [ i \in 1..Len(CriticalFields) |->
                Compared(original_plot, f, CriticalFields[i])[1]
                  # Compared(original_plot, f, CriticalFields[i])[2] ])

\* the update written with a filter on status = 'in_progress'
ResetTasks_in_progress_only(table, p) ==
  [ i \in 1..Len(table) |->
      IF table[i].plot = p /\ table[i].status = "in_progress"
      THEN [ table[i] EXCEPT !.status = "pending", !.assigned_to = None, !.approved = None ]
      ELSE table[i] ]

\* the update without assigned_to=None
ResetTasks_keeps_assignee(table, p) ==
  [ i \in 1..Len(table) |->
      IF table[i].plot = p
      THEN [ table[i] EXCEPT !.status = "pending", !.approved = None ]
      ELSE table[i] ]

\* VerificationTask.objects.filter(plot=plot).update(status='pending', ...)
ResetTasks(table, p) ==
  [ i \in 1..Len(table) |->
      IF table[i].plot = p
      THEN [ table[i] EXCEPT !.status = "pending", !.assigned_to = None, !.approved = None ]
      ELSE table[i] ]

\* the reset of the record; previous_stage is read after current_stage is overwritten
\* (of last_edit, edited_at and changes are left to the log row)
ResetVerification(v, user) ==
  [ v EXCEPT
      !.current_stage = "document_uploaded",
      !.stamped = @ \ { "approved_at", "rejected_at" },
      !.restamped = @ \ { "approved_at", "rejected_at" },
      !.stage_details = ("last_edit" :> [ edited_by |-> user,
                                          previous_stage |-> "document_uploaded" ]) @@ @ ]

ChangeNames(changes) == [ i \in 1..Len(changes) |-> CriticalFields[changes[i]] ]

\* a request of the plot's owner to edit_plot: GET, or POST with form f
edit_plot(p, method, f) ==
  /\ p \in 1..Len(plots)
  /\ LET existing_tasks == Cardinality({ i \in 1..Len(verificationTask) :
                                           verificationTask[i].plot = p })
         made == IF existing_tasks = 0
                 THEN create_verification_tasks(verificationTask, << >>, p, plots[p])
                 ELSE [ table |-> verificationTask, log |-> << >>,
                        tasks_created |-> << >>, raised |-> FALSE ]
         changes == ChangeNames(critical_changes(plots[p], f))
         got == get_or_create_status(verificationStatus, "plot", p,
                  NewVerificationStatus("plot", p, "document_uploaded", {}, NoDetails))
         uploads == IF f.files
                    THEN << LogEntry(p, Owner, "document_update",
                                     [ kind |-> "uploaded", items |-> << "title_deed" >> ]) >>
                    ELSE << >>
     IN  IF method = "GET" \/ ~PlotForm_is_valid(f)
         THEN /\ verificationTask' = made.table
              /\ verificationLog' = made.log
              /\ UNCHANGED << plots, verificationStatus >>
         ELSE /\ plots' = [ plots EXCEPT ![p] = SavedPlot(f) ]
              /\ IF changes = << >>
                 THEN /\ verificationTask' = made.table
                      /\ verificationLog' = made.log \o uploads
                      /\ UNCHANGED verificationStatus
                 ELSE IF got.raised
                 THEN /\ verificationTask' = made.table
                      /\ verificationLog' = made.log
                      /\ UNCHANGED verificationStatus
                 ELSE /\ verificationStatus' =
                           [ got.table EXCEPT ![got.id] = ResetVerification(@, Owner) ]
                      /\ verificationTask' = ResetTasks(made.table, p)
                      /\ verificationLog' =
                           made.log
                           \o << LogEntry(p, Owner, "system",
                                          [ kind |-> "reset", items |-> changes ]) >>
                           \o uploads
  /\ notifications' = << >>
  /\ returned' = NoCall
  /\ UNCHANGED << profiles, thread, request >>

\* ========================================= views.plot_verification_detail
plot_verification_detail(p) ==
  /\ p \in 1..Len(plots)
  /\ LET r == get_or_create_status(verificationStatus, "plot", p, PlainDefaults(p, "pending"))
     IN  /\ ~r.raised
         /\ verificationStatus' = r.table
  /\ verificationLog' = << >>
  /\ notifications' = << >>
  /\ returned' = NoCall
  /\ UNCHANGED << plots, profiles, verificationTask, thread, request >>

\* ============================ management command fix_verification_status
RECURSIVE FixLoop(_, _)
\* the loop over Plot.objects.all(): exists() and, when false, create()
FixLoop(table, p) ==
  IF p > Len(plots) THEN table
  ELSE FixLoop(IF \E i \in 1..Len(table) :
                     table[i].content_type = "plot" /\ table[i].object_id = p
               THEN table
               ELSE Append(table, PlainDefaults(p, "pending")),
               p + 1)

fix_verification_status ==
  /\ verificationStatus' = FixLoop(verificationStatus, 1)
  /\ verificationLog' = << >>
  /\ notifications' = << >>
  /\ returned' = NoCall
  /\ UNCHANGED << plots, profiles, verificationTask, thread, request >>

\* ============================== management command create_test_plots
\* one pass of the command's loop: Plot(**plot_data).save(), then get_or_create
\* with a stage drawn by random.choice
command_create_test_plots(obj, stage) ==
  /\ NextPlotId \in PlotIds
  /\ stage \in { "pending", "admin_review", "approved" }
  /\ plots' = Append(plots, obj)
  /\ verificationStatus' =
       get_or_create_status(verificationStatus, "plot", NextPlotId,
                            PlainDefaults(NextPlotId, stage)).table
  /\ verificationLog' = << >>
  /\ notifications' = << >>
  /\ returned' = NoCall
  /\ UNCHANGED << profiles, verificationTask, thread, request >>

\* ============================== NotificationService
\* NotificationService.create_notification: the row inserted; an exception of the
\* insert is caught inside, nothing is inserted and None is returned
create_notification(user, notification_type, p, task, ok) ==
  IF ok
  THEN << [ user |-> user, notification_type |-> notification_type,
            plot |-> p, task |-> task ] >>
  ELSE << >>

\* NotificationService.notify_task_assigned: the assignee's notification, then the
\* e-mail context reads settings.SITE_URL, which agriplot/settings.py does not define:
\* AttributeError, before send_email and before the assigner's notification
notify_task_assigned(task_id, task, assigned_by, ok) ==
  [ notifications |-> create_notification(task.assigned_to, "task_assigned",
                                          task.plot, task_id, ok),
    raised |-> "AttributeError" ]

\* NotificationService.notify_task_completed: the message f-string evaluates
\* completed_by.get_full_name() | default with no name `default` in scope: NameError,
\* before any notification is created
notify_task_completed(task_id, task, completed_by) ==
  [ notifications |-> << >>, raised |-> "NameError" ]

\* ===================================================== views.review_plot
\* the record after the POST action; reject and request_changes need notes
Reviewed(v, user, action, notes) ==
  CASE action = "approve" ->
         [ Stamp(v, "approved_at") EXCEPT !.current_stage = "approved",
                    !.stage_details = ("approved_by" :> Text(user))
                                      @@ ("approval_notes" :> Text(notes)) @@ @ ]
    [] action = "reject" ->
         [ Stamp(v, "rejected_at") EXCEPT !.current_stage = "rejected",
                    !.stage_details = ("rejected_by" :> Text(user))
                                      @@ ("rejection_reason" :> Text(notes)) @@ @ ]
    [] action = "request_changes" ->
         [ v EXCEPT !.current_stage = "document_uploaded",
                    !.stage_details = ("change_requests" :> Text(notes))
                                      @@ ("requested_by" :> Text(user)) @@ @ ]

\* the owner's notification of a review action; each is created inside a try whose
\* except only logs (notify_changes_requested creates its row before it fails on
\* settings.SITE_URL)
ReviewNotification(action) ==
  CASE action = "approve" -> "plot_approved"
    [] action = "reject" -> "plot_rejected"
    [] action = "request_changes" -> "changes_requested"

review_plot(p, user, action, notes) ==
  /\ p \in 1..Len(plots)
  /\ LET r == get_or_create_status(verificationStatus, "plot", p,
                                   PlainDefaults(p, "document_uploaded"))
         acts == /\ action \in { "approve", "reject", "request_changes" }
                 /\ action \in { "reject", "request_changes" } => notes # ""
     IN  /\ ~r.raised
         /\ verificationStatus' =
              IF acts THEN [ r.table EXCEPT ![r.id] = Reviewed(@, user, action, notes) ]
              ELSE r.table
         /\ verificationLog' =
              IF acts THEN << LogEntry(p, user, action,
                                       [ kind |-> "notes", items |-> << notes >> ]) >>
              ELSE << >>
         /\ notifications' =
              IF acts THEN create_notification(Owner, ReviewNotification(action), p, 0, TRUE)
              ELSE << >>
  /\ returned' = NoCall
  /\ UNCHANGED << plots, profiles, verificationTask, thread, request >>

\* ============================== VerificationService.assign_task
\* the task row after assign_task; the source tests nothing but the row's existence
assign_task(task, assigned_to_user) ==
  [ task EXCEPT !.assigned_to = assigned_to_user, !.status = "in_progress" ]

Returned(op, kind, value) == [ op |-> op, kind |-> kind, value |-> value, list |-> << >> ]

\* assign_task without its except clause: the DoesNotExist of the get reaches the caller
VerificationService_assign_task_uncaught(table, task_id, assigned_to_user, assigned_by, ok) ==
  IF task_id \notin 1..Len(table)
  THEN [ table |-> table, notifications |-> << >>, log |-> << >>,
         returned |-> Returned("assign_task", "raise", "DoesNotExist") ]
  ELSE [ table |-> [ table EXCEPT ![task_id] = assign_task(@, assigned_to_user) ],
         notifications |-> << >>, log |-> << >>,
         returned |-> Returned("assign_task", "raise", "AttributeError") ]

\* VerificationService.assign_task as a whole: get, save, notify, log; only
\* VerificationTask.DoesNotExist is caught (and answered with None)
VerificationService_assign_task(table, task_id, assigned_to_user, assigned_by, ok) ==
  IF task_id \notin 1..Len(table)
  THEN [ table |-> table, notifications |-> << >>, log |-> << >>,
         returned |-> Returned("assign_task", "return", "None") ]
  ELSE LET task == assign_task(table[task_id], assigned_to_user)
           sent == notify_task_assigned(task_id, task, assigned_by, ok)
       IN  [ table |-> [ table EXCEPT ![task_id] = task ],
             notifications |-> sent.notifications,
             log |-> IF sent.raised # "" THEN << >>
                     ELSE << LogEntry(task.plot, assigned_by, "assignment",
                                      [ kind |-> "assigned",
                                        items |-> << task.verification_type,
                                                     assigned_to_user >> ]) >>,
             returned |-> IF sent.raised # ""
                          THEN Returned("assign_task", "raise", sent.raised)
                          ELSE Returned("assign_task", "return", "task") ]

\* views_admin.ajax_assign_task (POST): the service call; None is answered with 404,
\* an exception with 500
ajax_assign_task(task_id, user, by, ok) ==
  /\ LET out == VerificationService_assign_task(verificationTask, task_id, user, by, ok)
     IN  /\ verificationTask' = out.table
         /\ notifications' = out.notifications
         /\ verificationLog' = out.log
         /\ returned' = out.returned
  /\ UNCHANGED << plots, profiles, verificationStatus, thread, request >>

\* ============================== VerificationService.complete_task
\* the task row after complete_task; the source tests nothing but the row's existence
complete_task(task, notes, approved) ==
  [ task EXCEPT !.status = "completed", !.notes = notes, !.approved = approved ]

\* "approved" if approved else "rejected" if approved is False else "completed"
CompletionStatus(approved) ==
  IF approved = "true" THEN "approved"
  ELSE IF approved = "false" THEN "rejected" ELSE "completed"

\* VerificationService.complete_task up to its call of
\* check_plot_verification_completion: get, save, notify, log; checks says whether
\* that call is reached
VerificationService_complete_task(table, task_id, completed_by, notes, approved) ==
  IF task_id \notin 1..Len(table)
  THEN [ table |-> table, notifications |-> << >>, log |-> << >>, checks |-> FALSE,
         returned |-> Returned("complete_task", "return", "None") ]
  ELSE LET task == complete_task(table[task_id], notes, approved)
           sent == notify_task_completed(task_id, task, completed_by)
       IN  [ table |-> [ table EXCEPT ![task_id] = task ],
             notifications |-> sent.notifications,
             log |-> IF sent.raised # "" THEN << >>
                     ELSE << LogEntry(task.plot, completed_by, task.verification_type,
                                      [ kind |-> "completed",
                                        items |-> << CompletionStatus(approved),
                                                     notes >> ]) >>,
             checks |-> sent.raised = "",
             returned |-> IF sent.raised # ""
                          THEN Returned("complete_task", "raise", sent.raised)
                          ELSE Returned("complete_task", "return", "task") ]

\* the record after check_plot_verification_completion found nothing outstanding
ApproveVerification(v) ==
  [ Stamp(v, "approved_at") EXCEPT !.current_stage = "approved" ]

\* the request after the count query of check_plot_verification_completion(p): it goes
\* on to the advance when the count is 0
Counted(table, p) ==
  IF PendingTasks(table, p) = {}
  THEN [ IdleRequest EXCEPT !.pc = "advance", !.plot = p ]
  ELSE IdleRequest

\* views_admin.complete_task_view (POST): get_object_or_404 on (id, assigned_to), then
\* the service call, and the count query when the service gets as far as its check
complete_task_view(r, task_id, user, notes, approved) ==
  /\ request[r].pc = "idle"
  /\ task_id \in 1..Len(verificationTask)
  /\ verificationTask[task_id].assigned_to = user
  /\ LET out == VerificationService_complete_task(verificationTask, task_id, user,
                                                  notes, Flag(approved))
     IN  /\ verificationTask' = out.table
         /\ notifications' = out.notifications
         /\ verificationLog' = out.log
         /\ returned' = out.returned
         /\ request' =
              [ request EXCEPT ![r] =
                  IF out.checks THEN Counted(out.table, verificationTask[task_id].plot)
                  ELSE IdleRequest ]
  /\ UNCHANGED << plots, profiles, verificationStatus, thread >>

\* VerificationService.complete_task called with any task id and any approved
service_complete_task(task_id, user, notes, approved) ==
  /\ LET out == VerificationService_complete_task(verificationTask, task_id, user,
                                                  notes, approved)
     IN  /\ verificationTask' = out.table
         /\ notifications' = out.notifications
         /\ verificationLog' = out.log
         /\ returned' = out.returned
  /\ UNCHANGED << plots, profiles, verificationStatus, thread, request >>

\* ============== VerificationService.check_plot_verification_completion
\* the call for plot p and its count query; nothing of complete_task reaches its own
\* call of it, so it is taken as the service operation it is
check_plot_verification_completion_count(r, p) ==
  /\ request[r].pc = "idle"
  /\ p \in 1..Len(plots)
  /\ request' = [ request EXCEPT ![r] = Counted(verificationTask, p) ]
  /\ verificationLog' = << >>
  /\ notifications' = << >>
  /\ returned' = IF PendingTasks(verificationTask, p) = {} THEN NoCall
                 ELSE Returned("check_plot_verification_completion", "return", "False")
  /\ UNCHANGED << plots, profiles, verificationStatus, verificationTask, thread >>

\* check_plot_verification_completion after the count: plot.verification.first(),
\* the write of the stage and the approval log row
check_plot_verification_completion(r) ==
  /\ request[r].pc = "advance"
  /\ LET p == request[r].plot
         id == VerificationFirst(p)
     IN  IF id = 0
         THEN /\ verificationLog' = << >>
              /\ returned' = Returned("check_plot_verification_completion",
                                      "return", "False")
              /\ UNCHANGED verificationStatus
         ELSE /\ verificationStatus' =
                   [ verificationStatus EXCEPT ![id] = ApproveVerification(@) ]
              /\ verificationLog' =
                   << LogEntry(p, None, "approval",
                               [ kind |-> "approved", items |-> << >> ]) >>
              /\ returned' = Returned("check_plot_verification_completion",
                                      "return", "True")
  /\ notifications' = << >>
  /\ request' = [ request EXCEPT ![r] = IdleRequest ]
  /\ UNCHANGED << plots, profiles, verificationTask, thread >>

\* =========================================================== Next, Spec
\* the plot workflow: submission, edit, task assignment and completion
Next ==
  \/ \E f \in PlotForms, ok \in BOOLEAN : add_plot(f, ok)
  \/ \E p \in PlotIds, m \in { "GET", "POST" }, f \in PlotForms : edit_plot(p, m, f)
  \/ \E p \in PlotIds, l \in FreeLocations :
       PlotAdmin_save_model(p, [ plots[p] EXCEPT !.location = FreeLocation(l) ], TRUE)
  \/ \E t \in 1..Len(verificationTask), u \in Staff, by \in Staff :
       ajax_assign_task(t, u, by, TRUE)
  \/ \E r \in CompletingIds, t \in 1..Len(verificationTask), u \in Staff, a \in BOOLEAN :
       complete_task_view(r, t, u, "", a)
  \/ \E r \in CompletingIds, p \in PlotIds : check_plot_verification_completion_count(r, p)
  \/ \E r \in CompletingIds : check_plot_verification_completion(r)

Spec == Init /\ [][Next]_vars

\* =============================== signals.start_verification (post_save)
NoResult == [ set |-> FALSE, success |-> FALSE, error |-> "" ]

\* the signal calling start_verification itself: the first stage is written before
\* the creating request returns
run_verification_inline(verification_id, v) ==
  [ pc |-> "search_title", verification_id |-> verification_id,
    verification |-> update_stage(v, "api_verification_started", NoDetails),
    title_result |-> NoResult, owner_result |-> "unset" ]

\* the thread the signal starts: ArdhisasaVerificationService(verification) about to
\* run start_verification on the object the signal holds; thread.start() returns at once
run_verification(verification_id, v) ==
  [ pc |-> "start", verification_id |-> verification_id, verification |-> v,
    title_result |-> NoResult, owner_result |-> "unset" ]

\* a LandownerProfile or Agent row is saved for the first time
profile_created(kind) ==
  /\ Len(profiles) < MaxProfiles
  /\ LET id == Cardinality({ i \in 1..Len(profiles) : profiles[i].kind = kind }) + 1
         v == NewVerificationStatus(kind, id, "document_uploaded",
                                    { "document_uploaded_at" }, NoDetails)
     IN  /\ profiles' = Append(profiles, [ kind |-> kind, id |-> id, verified |-> FALSE ])
         /\ verificationStatus' = Append(verificationStatus, v)
         /\ thread' = Append(thread, run_verification(Len(verificationStatus) + 1, v))
  /\ verificationLog' = << >>
  /\ notifications' = << >>
  /\ returned' = NoCall
  /\ UNCHANGED << plots, verificationTask, request >>

\* ============================== services.ArdhisasaVerificationService
\* what the title search call can come back with; mock_title_search stands in for
\* the registry and answers verified, a registry may answer not verified, and the
\* call or the save after it may raise
TitleResponses ==
  { [ outcome |-> "verified", message |-> "Title verified successfully" ],
    [ outcome |-> "not_verified", message |-> "Title not found" ],
    [ outcome |-> "raises", message |-> "Connection timed out" ] }

\* self.save() of the thread's object: every column is written from the object
Save(table, t) == [ table EXCEPT ![t.verification_id] = t.verification ]

\* start_verification up to the call of search_title
thread_update_stage_started(i) ==
  /\ i \in 1..Len(thread)
  /\ thread[i].pc = "start"
  /\ thread' = [ thread EXCEPT ![i] =
       [ @ EXCEPT !.pc = "search_title",
                  !.verification = update_stage(@, "api_verification_started", NoDetails) ] ]
  /\ verificationStatus' = Save(verificationStatus, thread'[i])
  /\ verificationLog' = << >>
  /\ notifications' = << >>
  /\ returned' = NoCall
  /\ UNCHANGED << plots, profiles, verificationTask, request >>

\* search_title: the object after the call and the result it returns
search_title(v, response) ==
  IF response.outcome = "raises"
  THEN [ verification |-> v, saved |-> FALSE,
         result |-> [ set |-> TRUE, success |-> FALSE, error |-> response.message ] ]
  ELSE IF response.outcome = "verified"
  THEN [ verification |->
           update_stage(add_api_response(v, [ stage |-> "title_search", response |-> response ]),
                        "title_search_completed", [ search_reference |-> "SRCH" ]),
         saved |-> TRUE,
         result |-> [ set |-> TRUE, success |-> TRUE, error |-> "" ] ]
  ELSE [ verification |->
           add_api_response(v, [ stage |-> "title_search", response |-> response ]),
         saved |-> TRUE,
         result |-> [ set |-> TRUE, success |-> FALSE, error |-> response.message ] ]

thread_search_title(i, response) ==
  /\ i \in 1..Len(thread)
  /\ thread[i].pc = "search_title"
  /\ LET r == search_title(thread[i].verification, response)
     IN  /\ thread' = [ thread EXCEPT ![i] =
              [ @ EXCEPT !.pc = IF r.result.success THEN "verify_owner" ELSE "handle_failure",
                         !.verification = r.verification,
                         !.title_result = r.result ] ]
         /\ verificationStatus' =
              IF r.saved THEN Save(verificationStatus, thread'[i]) ELSE verificationStatus
  /\ verificationLog' = << >>
  /\ notifications' = << >>
  /\ returned' = NoCall
  /\ UNCHANGED << plots, profiles, verificationTask, request >>

\* handle_failure that stores the result without its error message
handle_failure_without_reason(v, result) ==
  update_stage(v, "rejected", [ details |-> result ])

\* handle_failure: the object after update_stage('rejected', {reason, details})
handle_failure(v, result) ==
  update_stage(v, "rejected", [ reason |-> result.error, details |-> result ])

thread_handle_failure(i) ==
  /\ i \in 1..Len(thread)
  /\ thread[i].pc = "handle_failure"
  /\ thread' = [ thread EXCEPT ![i] =
       [ @ EXCEPT !.pc = "returned",
                  !.verification = handle_failure(@, thread[i].title_result) ] ]
  /\ verificationStatus' = Save(verificationStatus, thread'[i])
  /\ verificationLog' = << >>
  /\ notifications' = << >>
  /\ returned' = NoCall
  /\ UNCHANGED << plots, profiles, verificationTask, request >>

\* verify_owner is a stub whose body is pass: it returns None
verify_owner == None

\* owner_result = self.verify_owner(); owner_result['success'] then raises TypeError,
\* nothing catches it and the thread ends
thread_verify_owner(i) ==
  /\ i \in 1..Len(thread)
  /\ thread[i].pc = "verify_owner"
  /\ thread' = [ thread EXCEPT ![i] = [ @ EXCEPT !.pc = "raised", !.owner_result = verify_owner ] ]
  /\ verificationLog' = << >>
  /\ notifications' = << >>
  /\ returned' = NoCall
  /\ UNCHANGED << plots, profiles, verificationStatus, verificationTask, request >>

\* ========================================= views.admin_approve_verification
Reasons == { "", "forged title" }

admin_approve_verification(verification_id, user, action, reason) ==
  /\ verification_id \in 1..Len(verificationStatus)
  /\ action \in { "approve", "reject" }
  /\ verificationStatus' =
       [ verificationStatus EXCEPT ![verification_id] =
           IF action = "approve"
           THEN update_stage(@, "approved", [ approved_by |-> user, admin_notes |-> "" ])
           ELSE update_stage(@, "rejected",
                             [ rejected_by |-> user, reason |-> reason, admin_notes |-> "" ]) ]
  /\ profiles' =
       [ i \in 1..Len(profiles) |->
           IF /\ action = "approve"
              /\ profiles[i].kind = verificationStatus[verification_id].content_type
              /\ profiles[i].id = verificationStatus[verification_id].object_id
           THEN [ profiles[i] EXCEPT !.verified = TRUE ]
           ELSE profiles[i] ]
  /\ verificationLog' = << >>
  /\ notifications' = << >>
  /\ returned' = NoCall
  /\ UNCHANGED << plots, verificationTask, thread, request >>

\* admin_approve_verification in its two database statements: the SELECT of
\* get_object_or_404 gives the request its own copy of the row
admin_approve_get(r, verification_id) ==
  /\ request[r].pc = "idle"
  /\ verification_id \in 1..Len(verificationStatus)
  /\ request' = [ request EXCEPT ![r] =
       [ IdleRequest EXCEPT !.pc = "review", !.verification_id = verification_id,
                            !.loaded = << verificationStatus[verification_id] >> ] ]
  /\ verificationLog' = << >>
  /\ notifications' = << >>
  /\ returned' = NoCall
  /\ UNCHANGED << plots, profiles, verificationStatus, verificationTask, thread >>

\* the copy after update_stage('approved' | 'rejected', {...})
Decided(v, user, action, reason) ==
  IF action = "approve"
  THEN update_stage(v, "approved", [ approved_by |-> user, admin_notes |-> "" ])
  ELSE update_stage(v, "rejected",
                    [ rejected_by |-> user, reason |-> reason, admin_notes |-> "" ])

\* ... and the UPDATE of update_stage's self.save(), which writes every column of the
\* row from that copy
admin_approve_post(r, user, action, reason) ==
  /\ request[r].pc = "review"
  /\ action \in { "approve", "reject" }
  /\ LET verification_id == request[r].verification_id
     IN  /\ verificationStatus' =
              [ verificationStatus EXCEPT ![verification_id] =
                  Decided(request[r].loaded[1], user, action, reason) ]
         /\ profiles' =
              [ i \in 1..Len(profiles) |->
                  IF /\ action = "approve"
                     /\ profiles[i].kind = request[r].loaded[1].content_type
                     /\ profiles[i].id = request[r].loaded[1].object_id
                  THEN [ profiles[i] EXCEPT !.verified = TRUE ]
                  ELSE profiles[i] ]
  /\ request' = [ request EXCEPT ![r] = IdleRequest ]
  /\ verificationLog' = << >>
  /\ notifications' = << >>
  /\ returned' = NoCall
  /\ UNCHANGED << plots, verificationTask, thread >>

\* profile registration, the background threads and the final review
NextOrch ==
  \/ \E k \in ProfileKinds : profile_created(k)
  \/ \E i \in 1..Len(thread) : thread_update_stage_started(i)
  \/ \E i \in 1..Len(thread), response \in TitleResponses : thread_search_title(i, response)
  \/ \E i \in 1..Len(thread) : thread_handle_failure(i)
  \/ \E i \in 1..Len(thread) : thread_verify_owner(i)
  \/ \E id \in 1..Len(verificationStatus), u \in Staff, a \in { "approve", "reject" },
        reason \in Reasons : admin_approve_verification(id, u, a, reason)

SpecOrch == Init /\ [][NextOrch]_vars

\* a step of some started thread; signals.py starts each thread with Thread.start() and
\* nothing in the program makes a thread wait, so a thread that can step does step
ThreadStep ==
  \E i \in 1..Len(thread) :
    \/ thread_update_stage_started(i)
    \/ \E response \in TitleResponses : thread_search_title(i, response)
    \/ thread_handle_failure(i)
    \/ thread_verify_owner(i)

SpecOrchFair == Init /\ [][NextOrch]_vars /\ WF_vars(ThreadStep)

\* the threads next to reviewers whose requests read and write the row in two statements
NextRace ==
  \/ \E k \in ProfileKinds : profile_created(k)
  \/ \E i \in 1..Len(thread) : thread_update_stage_started(i)
  \/ \E i \in 1..Len(thread), response \in TitleResponses : thread_search_title(i, response)
  \/ \E i \in 1..Len(thread) : thread_handle_failure(i)
  \/ \E i \in 1..Len(thread) : thread_verify_owner(i)
  \/ \E r \in RequestIds, id \in 1..Len(verificationStatus) : admin_approve_get(r, id)
  \/ \E r \in RequestIds, u \in Staff, a \in { "approve", "reject" }, reason \in Reasons :
       admin_approve_post(r, u, a, reason)

SpecRace == Init /\ [][NextRace]_vars

\* ============ create_verification_tasks under concurrent requests
\* get_or_create is a get followed, when no row matched, by a create; no unique
\* constraint on (plot, verification_type) stands between the two statements.
\* edit_plot finds no task of plot p and enters create_verification_tasks
create_tasks_begin(r, p) ==
  /\ request[r].pc = "idle"
  /\ p \in 1..Len(plots)
  /\ \A i \in 1..Len(verificationTask) : verificationTask[i].plot # p
  /\ request' = [ request EXCEPT ![r] = [ IdleRequest EXCEPT !.pc = "get", !.plot = p, !.vtype = 1 ] ]
  /\ verificationLog' = << >>
  /\ notifications' = << >>
  /\ returned' = NoCall
  /\ UNCHANGED << plots, profiles, verificationStatus, verificationTask, thread >>

\* where request r goes after the get_or_create of its vtype-th type
AfterType(r) ==
  IF request[r].vtype < Len(ApplicableTypes(plots[request[r].plot]))
  THEN [ pc |-> "get", vtype |-> request[r].vtype + 1 ]
  ELSE [ pc |-> "log", vtype |-> 0 ]

\* the SELECT of get_or_create
create_tasks_get(r) ==
  /\ request[r].pc = "get"
  /\ LET p == request[r].plot
         ids == TaskIdsFor(verificationTask, p, ApplicableTypes(plots[p])[request[r].vtype])
     IN  request' = [ request EXCEPT ![r] =
           IF ids = {} THEN [ @ EXCEPT !.pc = "create", !.found = FALSE ]
           ELSE IF Cardinality(ids) = 1
                THEN [ @ EXCEPT !.pc = AfterType(r).pc, !.vtype = AfterType(r).vtype,
                                !.found = TRUE ]
                ELSE IdleRequest ]
  /\ verificationLog' = << >>
  /\ notifications' = << >>
  /\ returned' = NoCall
  /\ UNCHANGED << plots, profiles, verificationStatus, verificationTask, thread >>

\* the INSERT of get_or_create
create_tasks_create(r) ==
  /\ request[r].pc = "create"
  /\ LET p == request[r].plot
         vtype == ApplicableTypes(plots[p])[request[r].vtype]
     IN  /\ verificationTask' = Append(verificationTask, NewTask(p, vtype))
         /\ request' = [ request EXCEPT ![r] =
              [ @ EXCEPT !.pc = AfterType(r).pc, !.vtype = AfterType(r).vtype,
                         !.tasks_created = Append(@, vtype) ] ]
  /\ verificationLog' = << >>
  /\ notifications' = << >>
  /\ returned' = NoCall
  /\ UNCHANGED << plots, profiles, verificationStatus, thread >>

\* the log row create_verification_tasks ends with
create_tasks_log(r) ==
  /\ request[r].pc = "log"
  /\ notifications' = << >>
  /\ returned' = NoCall
  /\ verificationLog' =
       << LogEntry(request[r].plot, None, "system",
                   [ kind |-> "created", items |-> request[r].tasks_created ]) >>
  /\ request' = [ request EXCEPT ![r] = IdleRequest ]
  /\ UNCHANGED << plots, profiles, verificationStatus, verificationTask, thread >>

\* plot submission and concurrent requests that create the plot's tasks
NextConc ==
  \/ \E f \in PlotForms : add_plot(f, TRUE)
  \/ \E r \in RequestIds, p \in PlotIds : create_tasks_begin(r, p)
  \/ \E r \in RequestIds : create_tasks_get(r)
  \/ \E r \in RequestIds : create_tasks_create(r)
  \/ \E r \in RequestIds : create_tasks_log(r)

SpecConc == Init /\ [][NextConc]_vars

\* every path that creates a VerificationStatus row, each request run to its end
NextRecords ==
  \/ \E k \in ProfileKinds : profile_created(k)
  \/ \E f \in { BaseForm }, ok \in BOOLEAN : add_plot(f, ok)
  \/ \E obj \in AdminPlots : PlotAdmin_save_model(NextPlotId, obj, FALSE)
  \/ \E obj \in AdminPlots, st \in { "pending", "admin_review", "approved" } :
       command_create_test_plots(obj, st)
  \/ \E p \in PlotIds, f \in { [ BaseForm EXCEPT !.area = a ] : a \in Areas } :
       edit_plot(p, "POST", f)
  \/ \E p \in PlotIds : plot_verification_detail(p)
  \/ \E p \in PlotIds, u \in Staff, a \in { "view", "approve", "reject", "request_changes" },
        n \in Notes : review_plot(p, u, a, n)
  \/ fix_verification_status

SpecRecords == Init /\ [][NextRecords]_vars

\* ============================== the task service, called with any task id
\* task ids a caller can pass: those of the table and one that does not exist
TaskIdInputs == 1..(Len(verificationTask) + 1)
ApprovedInputs == { "true", "false", None }

\* a plot with its tasks, and the three operations of VerificationService
NextService ==
  \/ add_plot(BaseForm, TRUE)
  \/ \E p \in PlotIds : edit_plot(p, "GET", BaseForm)
  \/ \E t \in TaskIdInputs, u \in Staff, by \in Staff \cup { Owner }, ok \in BOOLEAN :
       ajax_assign_task(t, u, by, ok)
  \/ \E r \in CompletingIds, t \in TaskIdInputs, u \in Staff, a \in BOOLEAN :
       complete_task_view(r, t, u, "", a)
  \/ \E t \in TaskIdInputs, u \in Staff, n \in Notes, a \in ApprovedInputs :
       service_complete_task(t, u, n, a)
  \/ \E r \in CompletingIds, p \in PlotIds : check_plot_verification_completion_count(r, p)
  \/ \E r \in CompletingIds : check_plot_verification_completion(r)

SpecService == Init /\ [][NextService]_vars

\* ============================== admin.VerificationStatusAdmin actions
\* each action runs update_stage on every selected row; one row is selected here
mark_as_approved(id, user) ==
  /\ id \in 1..Len(verificationStatus)
  /\ verificationStatus' =
       [ verificationStatus EXCEPT ![id] =
           update_stage(@, "approved", [ approved_by |-> user ]) ]
  /\ verificationLog' = << >>
  /\ notifications' = << >>
  /\ returned' = NoCall
  /\ UNCHANGED << plots, profiles, verificationTask, thread, request >>

mark_as_rejected(id, user) ==
  /\ id \in 1..Len(verificationStatus)
  /\ verificationStatus' =
       [ verificationStatus EXCEPT ![id] =
           update_stage(@, "rejected", [ rejected_by |-> user ]) ]
  /\ verificationLog' = << >>
  /\ notifications' = << >>
  /\ returned' = NoCall
  /\ UNCHANGED << plots, profiles, verificationTask, thread, request >>

reset_to_pending(id) ==
  /\ id \in 1..Len(verificationStatus)
  /\ verificationStatus' =
       [ verificationStatus EXCEPT ![id] = update_stage(@, "document_uploaded", NoDetails) ]
  /\ verificationLog' = << >>
  /\ notifications' = << >>
  /\ returned' = NoCall
  /\ UNCHANGED << plots, profiles, verificationTask, thread, request >>

\* ============================== admin.PlotAdmin actions
\* verify_selected on plot p: get_or_create with the stage in the defaults, the stage
\* and approved_at written to a row that existed, stage_details replaced, save
verify_selected(p, user) ==
  /\ p \in 1..Len(plots)
  /\ LET r == get_or_create_status(verificationStatus, "plot", p,
                NewVerificationStatus("plot", p, "approved",
                                      { "document_uploaded_at", "approved_at" }, NoDetails))
     IN  /\ ~r.raised
         /\ verificationStatus' =
              [ r.table EXCEPT ![r.id] =
                  [ (IF r.created THEN @ ELSE Stamp(@, "approved_at")) EXCEPT
                             !.current_stage = "approved",
                             !.stage_details = ("reviewed_by" :> Text(user))
                                               @@ ("action" :> Text("verified")) ] ]
  /\ verificationLog' = << >>
  /\ notifications' = << >>
  /\ returned' = NoCall
  /\ UNCHANGED << plots, profiles, verificationTask, thread, request >>

\* reject_selected on plot p: as verify_selected, with no rejected_at written
reject_selected(p, user) ==
  /\ p \in 1..Len(plots)
  /\ LET r == get_or_create_status(verificationStatus, "plot", p,
                                   PlainDefaults(p, "rejected"))
     IN  /\ ~r.raised
         /\ verificationStatus' =
              [ r.table EXCEPT ![r.id] =
                  [ @ EXCEPT !.current_stage = "rejected",
                             !.stage_details = ("reviewed_by" :> Text(user))
                                               @@ ("notes" :> Text("Rejected by admin"))
                                               @@ ("action" :> Text("rejected")) ] ]
  /\ verificationLog' = << >>
  /\ notifications' = << >>
  /\ returned' = NoCall
  /\ UNCHANGED << plots, profiles, verificationTask, thread, request >>

\* the paths that approve or reject a plot's record: the review view, the admin
\* actions and the completion check
NextAdmin ==
  \/ \E ok \in BOOLEAN : add_plot(BaseForm, ok)
  \/ \E p \in PlotIds, u \in Staff, a \in { "approve", "reject", "request_changes" },
        n \in Notes : review_plot(p, u, a, n)
  \/ \E id \in 1..Len(verificationStatus), u \in Staff : mark_as_approved(id, u)
  \/ \E id \in 1..Len(verificationStatus), u \in Staff : mark_as_rejected(id, u)
  \/ \E id \in 1..Len(verificationStatus) : reset_to_pending(id)
  \/ \E p \in PlotIds, u \in Staff : verify_selected(p, u)
  \/ \E p \in PlotIds, u \in Staff : reject_selected(p, u)
  \/ \E r \in CompletingIds, p \in PlotIds : check_plot_verification_completion_count(r, p)
  \/ \E r \in CompletingIds : check_plot_verification_completion(r)

SpecAdmin == Init /\ [][NextAdmin]_vars

\* ===================== staff review of a plot whose tasks are being completed
NextReview ==
  \/ add_plot(BaseForm, TRUE)
  \/ \E p \in PlotIds : edit_plot(p, "GET", BaseForm)
  \/ \E p \in PlotIds, u \in Staff, a \in { "approve", "reject" } :
       review_plot(p, u, a, "see notes")
  \/ \E t \in 1..Len(verificationTask), u \in Staff, a \in { "true", "false" } :
       service_complete_task(t, u, "", a)
  \/ \E r \in CompletingIds, p \in PlotIds : check_plot_verification_completion_count(r, p)
  \/ \E r \in CompletingIds : check_plot_verification_completion(r)

SpecReview == Init /\ [][NextReview]_vars

\* ============== VerificationService.create_verification_tasks, called
\* areas around the surveyor's threshold
AreaInputs == { 10, SURVEYOR_AREA, 80 }
CreateForms == { [ BaseForm EXCEPT !.area = a, !.land_type = l ] :
                   a \in AreaInputs, l \in LandTypes }

\* create_verification_tasks(plot) called for a stored plot: the list it returns
service_create_verification_tasks(p) ==
  /\ p \in 1..Len(plots)
  /\ LET out == create_verification_tasks(verificationTask, << >>, p, plots[p])
     IN  /\ ~out.raised
         /\ verificationTask' = out.table
         /\ verificationLog' = out.log
         /\ returned' = [ Returned("create_verification_tasks", "return", "list")
                            EXCEPT !.list = out.tasks_created ]
  /\ notifications' = << >>
  /\ UNCHANGED << plots, profiles, verificationStatus, thread, request >>

\* plots of every size and land type, edited, and their tasks created and assigned
NextCreate ==
  \/ \E f \in CreateForms : add_plot(f, TRUE)
  \/ \E p \in PlotIds, f \in CreateForms : edit_plot(p, "POST", f)
  \/ \E p \in PlotIds : service_create_verification_tasks(p)
  \/ \E t \in 1..Len(verificationTask), u \in Staff : ajax_assign_task(t, u, u, TRUE)

SpecCreate == Init /\ [][NextCreate]_vars

\* ============================== VerificationStatus.update_stage, called
\* the stage names and details a caller passes; under_review is in no list of the source
StageInputs == { "document_uploaded", "admin_review", "approved", "rejected", "under_review" }
DetailInputs == { NoDetails, [ reason |-> "forged title" ] }

\* obj.update_stage(stage, details) on the row as stored: the method returns None
VerificationStatus_update_stage(id, stage, details) ==
  /\ id \in 1..Len(verificationStatus)
  /\ verificationStatus' =
       [ verificationStatus EXCEPT ![id] = update_stage(@, stage, details) ]
  /\ returned' = Returned("update_stage", "return", "None")
  /\ verificationLog' = << >>
  /\ notifications' = << >>
  /\ UNCHANGED << plots, profiles, verificationTask, thread, request >>

NextStage ==
  \/ \E k \in ProfileKinds : profile_created(k)
  \/ \E id \in 1..Len(verificationStatus), stage \in StageInputs, details \in DetailInputs :
       VerificationStatus_update_stage(id, stage, details)

SpecStage == Init /\ [][NextStage]_vars

\* ============================== VerificationStatus.progress_percentage
\* stages.index(self.current_stage)
StageIndex(stage) == (CHOOSE k \in 1..Len(STAGES) : STAGES[k] = stage) - 1

\* the property without its two branches for approved and rejected
progress_percentage_by_index(v) ==
  IF v.current_stage \in SeqToSet(STAGES)
  THEN ((StageIndex(v.current_stage) + 1) * 100) \div Len(STAGES)
  ELSE 0

\* int((index + 1) / total_stages * 100): the quotient is never a whole number for the
\* indexes that reach the division, so the float result truncates as the exact one does
progress_percentage(v) ==
  IF v.current_stage = "approved" THEN 100
  ELSE IF v.current_stage = "rejected" THEN 100
  ELSE IF v.current_stage \in SeqToSet(STAGES)
  THEN LET index == StageIndex(v.current_stage)
           total_stages == Len(STAGES)
       IN  ((index + 1) * 100) \div total_stages
  ELSE 0

\* the property read of a stored row: the row's id and the percentage
read_progress_percentage(id) ==
  /\ id \in 1..Len(verificationStatus)
  /\ returned' = [ Returned("progress_percentage", "return", "int")
                     EXCEPT !.list = << id, progress_percentage(verificationStatus[id]) >> ]
  /\ verificationLog' = << >>
  /\ notifications' = << >>
  /\ UNCHANGED << plots, profiles, verificationStatus, verificationTask, thread, request >>

\* a record moved to any stage, in any order, and its progress read
NextProgress ==
  \/ \E k \in ProfileKinds : profile_created(k)
  \/ \E id \in 1..Len(verificationStatus), stage \in SeqToSet(STAGES) \cup StageInputs :
       VerificationStatus_update_stage(id, stage, NoDetails)
  \/ \E id \in 1..Len(verificationStatus) : read_progress_percentage(id)

SpecProgress == Init /\ [][NextProgress]_vars

\* ================================================================ properties
\* the plot's tasks are all pending and its record exists at document_uploaded, after the step
ResetDone(p) ==
  /\ \E i \in 1..Len(verificationStatus') :
       verificationStatus'[i].content_type = "plot" /\ verificationStatus'[i].object_id = p
  /\ \A i \in 1..Len(verificationStatus') :
       verificationStatus'[i].content_type = "plot" /\ verificationStatus'[i].object_id = p
         => verificationStatus'[i].current_stage = "document_uploaded"
  /\ \A t \in 1..Len(verificationTask') :
       verificationTask'[t].plot = p => verificationTask'[t].status = "pending"

\* the step wrote a reset row to the log that names every field of names
ResetLogged(p, names) ==
  \E k \in 1..Len(verificationLog') :
    /\ verificationLog'[k].plot = p
    /\ verificationLog'[k].verification_type = "system"
    /\ verificationLog'[k].comment.kind = "reset"
    /\ names \subseteq SeqToSet(verificationLog'[k].comment.items)

StoredFields == { "title", "county", "subcounty", "location", "area", "land_type", "price" }

\* the stored fields of plot p the step changed
Changed(p) == { n \in StoredFields : plots[p][n] # plots'[p][n] }

\* the step is a successful edit_plot of plot p that changed the row: edit_plot writes
\* the location composed from county and sub-county, the admin form writes free text
IsEditStep(p) == plots'[p] # plots[p] /\ plots'[p].location.text = ""

\* the tasks of plot p in table that are pending or in_progress
Outstanding(table, p) ==
  { t \in 1..Len(table) :
      table[t].plot = p /\ (table[t].status = "pending" \/ table[t].status = "in_progress") }

C3_Original ==
  \A p \in PlotIds, k \in 1..Len(TASK_TYPE_CHOICES) :
    Cardinality(TaskIdsFor(verificationTask, p, TASK_TYPE_CHOICES[k])) <= 1

\* C4 as stated: a task's status changes only from pending to in_progress, from
\* in_progress to completed, or to pending in a step that is the reset of an edit.
C4_Original ==
  [][ \A t \in 1..Len(verificationTask) :
        verificationTask[t].status # verificationTask'[t].status
        => \/ /\ verificationTask[t].status = "pending"
              /\ verificationTask'[t].status = "in_progress"
           \/ /\ verificationTask[t].status = "in_progress"
              /\ verificationTask'[t].status = "completed"
           \/ /\ verificationTask'[t].status = "pending"
              /\ ResetLogged(verificationTask[t].plot, {}) ]_vars

Ended == { i \in 1..Len(thread) : thread[i].pc \in { "returned", "raised" } }

\* C7 as stated: a run in which no step reported a failure ends with its record at
\* admin_review.
C7_Original ==
  \A i \in Ended :
    thread[i].title_result.success => thread[i].verification.current_stage = "admin_review"

\* C8: once search_title has reported a failure, verify_owner is not called, the run
\* ends in handle_failure, which writes stage rejected with the failure message as the
\* reason to the row, and the run's record never carries admin_review.
C8_TitleFailureRejects ==
  [][ \A i \in 1..Len(thread) :
        thread'[i].title_result.set /\ ~thread'[i].title_result.success
        => /\ thread'[i].owner_result = "unset"
           /\ thread'[i].pc \in { "handle_failure", "returned" }
           /\ thread'[i].verification.current_stage # "admin_review"
           /\ "admin_review_at" \notin thread'[i].verification.stamped
           /\ thread[i].pc = "handle_failure" /\ thread'[i].pc = "returned"
              => LET v == verificationStatus'[thread'[i].verification_id]
                 IN  /\ v.current_stage = "rejected"
                     /\ "rejected" \in DOMAIN v.stage_details
                     /\ "reason" \in DOMAIN v.stage_details["rejected"]
                     /\ v.stage_details["rejected"].reason = thread'[i].title_result.error
                     /\ thread'[i].title_result.error # "" ]_vars

\* a run has ended after a failed title search with its row rejected
C8_Witness ==
  \E i \in Ended :
    /\ thread[i].title_result.set /\ ~thread[i].title_result.success
    /\ verificationStatus[thread[i].verification_id].current_stage = "rejected"
    /\ thread[i].owner_result = "unset"

\* C9 as stated: a run whose title search succeeded and whose verify_owner did not
\* report success ends with its record rejected and the reason in stage_details.
C9_Original ==
  \A i \in Ended :
    thread[i].title_result.success /\ thread[i].owner_result = None
    => /\ thread[i].verification.current_stage = "rejected"
       /\ "rejected" \in DOMAIN thread[i].verification.stage_details

\* C10: the step that creates a profile adds the profile's record at document_uploaded
\* and a thread that has not run any step of start_verification; the other threads and
\* rows are as they were.
C10_CreationDoesNotWait ==
  [][ Len(profiles') > Len(profiles)
      => /\ Len(thread') = Len(thread) + 1
         /\ Len(verificationStatus') = Len(verificationStatus) + 1
         /\ \A i \in 1..Len(thread) : thread'[i] = thread[i]
         /\ \A i \in 1..Len(verificationStatus) : verificationStatus'[i] = verificationStatus[i]
         /\ LET t == thread'[Len(thread')]
                v == verificationStatus'[Len(verificationStatus')]
            IN  /\ t.pc = "start"
                /\ t.verification_id = Len(verificationStatus')
                /\ v.content_type = profiles'[Len(profiles')].kind
                /\ v.object_id = profiles'[Len(profiles')].id
                /\ v.current_stage = "document_uploaded"
                /\ v.api_responses = << >> ]_vars

\* every profile has been created and a thread is still before its title search, its
\* record at an intermediate stage
C10_Witness ==
  /\ Len(profiles) = MaxProfiles
  /\ \E i \in 1..Len(thread) :
       /\ thread[i].pc = "search_title"
       /\ verificationStatus[thread[i].verification_id].current_stage
            = "api_verification_started"

\* C11 as stated: under fair scheduling of the threads, every run that was started ends,
\* and ends with the record it works on at admin_review or rejected, never at a stage
\* in between.
C11_Original ==
  \A i \in 1..MaxProfiles :
    (i \in 1..Len(thread))
      ~> ( /\ i \in Ended
           /\ thread[i].verification.current_stage \in { "admin_review", "rejected" } )

IsPrefix(s, t) == Len(s) <= Len(t) /\ \A k \in 1..Len(s) : s[k] = t[k]

\* C12 as stated: in every step, of a thread or of a reviewer's request working on the
\* copy it loaded, the api_responses stored in a row after the step begin with the
\* api_responses stored before it.
C12_Original ==
  [][ \A i \in 1..Len(verificationStatus) :
        IsPrefix(verificationStatus[i].api_responses,
                 verificationStatus'[i].api_responses) ]_vars

\* the place of a stage in the order of STAGES
StagePosition(stage) == CHOOSE k \in 1..Len(STAGES) : STAGES[k] = stage

\* C13 as stated: from one state to the next the place of a row's stage in the order of
\* STAGES never goes down, except when the step is the reset of a plot's record by an
\* edit of the plot.
C13_Original ==
  [][ \A i \in 1..Len(verificationStatus) :
        \/ StagePosition(verificationStatus'[i].current_stage)
             >= StagePosition(verificationStatus[i].current_stage)
        \/ /\ verificationStatus[i].content_type = "plot"
           /\ verificationStatus'[i].current_stage = "document_uploaded"
           /\ ResetLogged(verificationStatus[i].object_id, {}) ]_vars

\* C14 as stated: a row's is_complete is true exactly when its stage is approved or
\* rejected.
C14_Original ==
  \A i \in 1..Len(verificationStatus) :
    verificationStatus[i].is_complete
      <=> verificationStatus[i].current_stage \in { "approved", "rejected" }

\* C15 as stated: the stage of every row is one of STAGES, and a row that a step
\* creates starts at document_uploaded with document_uploaded_at set.
C15_Original ==
  [][ \A i \in 1..Len(verificationStatus') :
        /\ verificationStatus'[i].current_stage \in SeqToSet(STAGES)
        /\ i > Len(verificationStatus)
             => /\ verificationStatus'[i].current_stage = "document_uploaded"
                /\ "document_uploaded_at" \in verificationStatus'[i].stamped ]_vars

\* C16 as stated: update_stage called with a name that is not in STAGES fails with
\* InvalidStageError, the row is as it was before the call, and no row ever carries a
\* stage outside STAGES.
C16_Original ==
  [][ returned'.op = "update_stage"
      => \A i \in 1..Len(verificationStatus) :
           verificationStatus'[i].current_stage \notin SeqToSet(STAGES)
             => /\ verificationStatus'[i] = verificationStatus[i]
                /\ returned' = Returned("update_stage", "raise", "InvalidStageError") ]_vars

\* the step left every table as it was and wrote no log row and no notification
NothingWritten ==
  /\ UNCHANGED << plots, profiles, verificationStatus, verificationTask, thread, request >>
  /\ verificationLog' = << >>
  /\ notifications' = << >>

\* the step is a call of assign_task or complete_task with a task id that is not in
\* the table
MissingTaskCall ==
  \/ \E t \in TaskIdInputs, u \in Staff, by \in Staff \cup { Owner }, ok \in BOOLEAN :
       t \notin 1..Len(verificationTask) /\ ajax_assign_task(t, u, by, ok)
  \/ \E t \in TaskIdInputs, u \in Staff, n \in Notes, a \in ApprovedInputs :
       t \notin 1..Len(verificationTask) /\ service_complete_task(t, u, n, a)

\* C17 as stated: assign_task and complete_task called with a task id that does not
\* exist raise a not-found error to their caller and change nothing.
C17_Original ==
  [][ MissingTaskCall => NothingWritten /\ returned'.kind = "raise" ]_vars

\* C17 amended: assign_task and complete_task called with a task id that does not exist
\* return None to their caller (no exception leaves the service) and change no task,
\* no record, and write no log row and no notification.
C17_MissingTaskReturnsNone ==
  [][ MissingTaskCall
      => /\ NothingWritten
         /\ returned'.op \in { "assign_task", "complete_task" }
         /\ returned'.kind = "return" /\ returned'.value = "None" ]_vars

\* complete_task has just returned None while the plot's tasks exist
C17_Witness ==
  /\ returned = Returned("complete_task", "return", "None")
  /\ Len(verificationTask) > 0
  /\ \E t \in 1..Len(verificationTask) : verificationTask[t].status = "in_progress"

\* C18 as stated: a step that changes the stage of a stored row, or that assigns or
\* completes a task, writes exactly one VerificationLog row.
C18_Original ==
  [][ ( \/ \E i \in 1..Len(verificationStatus) :
             verificationStatus'[i].current_stage # verificationStatus[i].current_stage
        \/ \E t \in 1..Len(verificationTask) :
             /\ verificationTask'[t] # verificationTask[t]
             /\ verificationTask'[t].status \in { "in_progress", "completed" } )
      => Len(verificationLog') = 1 ]_vars

\* the step is a call of assign_task or complete_task that found its task
TaskCall ==
  /\ returned'.op \in { "assign_task", "complete_task" }
  /\ returned' # Returned(returned'.op, "return", "None")

\* C19 as stated: whatever goes wrong in the notifications of assign_task or
\* complete_task, no exception reaches the caller, the task has its new status and the
\* log row of the assignment or completion is written.
C19_Original ==
  [][ TaskCall
      => /\ returned'.kind = "return"
         /\ \E t \in 1..Len(verificationTask) :
              /\ verificationTask'[t].status
                   = (IF returned'.op = "assign_task" THEN "in_progress" ELSE "completed")
              /\ \A u \in 1..Len(verificationTask) :
                   u # t => verificationTask'[u] = verificationTask[u]
         /\ Len(verificationLog') = 1
         /\ verificationLog'[1].comment.kind
              = (IF returned'.op = "assign_task" THEN "assigned" ELSE "completed") ]_vars

\* C20 as stated: a step in which complete_task completes an existing task with
\* approved = False creates exactly one notification for the plot's owner and writes
\* exactly one log row, which records a rejection (by its verification_type or by the
\* status in its comment).
C20_Original ==
  [][ ( /\ returned'.op = "complete_task"
        /\ \E t \in 1..Len(verificationTask) :
             /\ verificationTask'[t] # verificationTask[t]
             /\ verificationTask'[t].approved = "false" )
      => /\ Cardinality({ k \in 1..Len(notifications') :
                            notifications'[k].user = Owner }) = 1
         /\ Len(verificationLog') = 1
         /\ \/ verificationLog'[1].verification_type = "rejection"
            \/ verificationLog'[1].comment.items[1] = "rejected" ]_vars

\* C21 as stated: when complete_task completes a task and no task of the plot is pending
\* or in_progress afterwards, the same request goes on into
\* check_plot_verification_completion, past its count, to the write of approved.
C21_Original ==
  [][ \A t \in 1..Len(verificationTask) :
        ( /\ returned'.op = "complete_task"
          /\ verificationTask'[t] # verificationTask[t]
          /\ verificationTask'[t].status = "completed"
          /\ Outstanding(verificationTask', verificationTask[t].plot) = {} )
        => \E r \in RequestIds : /\ request'[r].pc = "advance"
                                 /\ request'[r].plot = verificationTask[t].plot ]_vars

\* the type is asked of the plot: document_review always, extension_review of
\* agricultural land, surveyor_inspection of an area above 50
Applies(vtype, plot) ==
  \/ vtype = "document_review"
  \/ vtype = "extension_review" /\ plot.land_type = "agricultural"
  \/ vtype = "surveyor_inspection" /\ plot.area > 50

\* the types asked of plot p that have no task in table, in the order of TASK_TYPE_CHOICES
Missing(table, p) ==
  SelectSeq(TASK_TYPE_CHOICES,
            LAMBDA vtype : /\ Applies(vtype, plots[p])
                           /\ \A t \in 1..Len(table) :
                                ~(table[t].plot = p /\ table[t].verification_type = vtype))

RejectionReasons(v) ==
  (IF "rejected" \in DOMAIN v.stage_details
      /\ "reason" \in DOMAIN v.stage_details["rejected"]
   THEN { v.stage_details["rejected"].reason } ELSE { })
  \cup { v.stage_details[k].text : k \in { "rejection_reason", "notes" }
                                        \cap DOMAIN v.stage_details }

\* C23 as stated: every row whose stage is rejected has a reason in its stage_details
\* that is not the empty string.
C23_Original ==
  \A i \in 1..Len(verificationStatus) :
    verificationStatus[i].current_stage = "rejected"
      => \E reason \in RejectionReasons(verificationStatus[i]) : reason # ""

\* the users a row's stage_details name as the one who approved: approved_by in the
\* details update_stage stored, review_plot's approved_by, verify_selected's reviewed_by
Approvers(v) ==
  (IF "approved" \in DOMAIN v.stage_details
      /\ "approved_by" \in DOMAIN v.stage_details["approved"]
   THEN { v.stage_details["approved"].approved_by } ELSE { })
  \cup { v.stage_details[k].text : k \in { "approved_by", "reviewed_by" }
                                        \cap DOMAIN v.stage_details }

C25_ProgressFormula ==
  returned.op = "progress_percentage"
  => LET stage == verificationStatus[returned.list[1]].current_stage
         percentage == returned.list[2]
     IN  stage \in SeqToSet(STAGES)
         => /\ percentage = IF stage \in { "approved", "rejected" } THEN 100
                            ELSE (StagePosition(stage) * 100) \div 9
            /\ stage = "title_search_completed" => percentage = 33

\* the progress of a row at title_search_completed has just been read as 33
C25_Witness ==
  /\ returned.op = "progress_percentage"
  /\ verificationStatus[returned.list[1]].current_stage = "title_search_completed"
  /\ returned.list[2] = 33

\* C26: when a row moves from a stage to the same or a later stage of STAGES, its
\* progress does not go down, and at approved and at rejected it is 100.
C26_ProgressMonotone ==
  [][ \A i \in 1..Len(verificationStatus) :
        LET s1 == verificationStatus[i].current_stage
            s2 == verificationStatus'[i].current_stage
        IN  ( /\ s1 \in SeqToSet(STAGES) /\ s2 \in SeqToSet(STAGES)
              /\ StagePosition(s1) <= StagePosition(s2) )
            => /\ progress_percentage(verificationStatus[i])
                    <= progress_percentage(verificationStatus'[i])
               /\ s2 \in { "approved", "rejected" }
                    => progress_percentage(verificationStatus'[i]) = 100 ]_vars

\* a row that went through admin_review and approved is rejected, and its progress has
\* just been read as 100
C26_Witness ==
  /\ returned.op = "progress_percentage"
  /\ returned.list[2] = 100
  /\ LET v == verificationStatus[returned.list[1]]
     IN  /\ v.current_stage = "rejected"
         /\ { "admin_review_at", "approved_at" } \subseteq v.stamped

\* C27 as stated: a call of update_stage for a stage whose timestamp is set leaves that
\* timestamp as it is, and no call of update_stage changes or clears the timestamp of
\* another stage.
C27_Original ==
  [][ returned'.op = "update_stage"
      => \A i \in 1..Len(verificationStatus) :
           LET v == verificationStatus[i]
               w == verificationStatus'[i]
           IN  \A field \in TimestampFields :
                 ( field \in v.stamped \/ field # StageAt(w.current_stage) )
                   => /\ field \in v.stamped <=> field \in w.stamped
                      /\ field \in v.restamped <=> field \in w.restamped ]_vars

\* the step is the write of check_plot_verification_completion that sets the record of
\* plot p to approved
AggregatorApproves(p) ==
  /\ returned' = Returned("check_plot_verification_completion", "return", "True")
  /\ \E r \in CompletingIds : request[r].pc = "advance" /\ request[r].plot = p
                               /\ request'[r].pc = "idle"

C30_StatusMatchesAssignee ==
  \A t \in 1..Len(verificationTask) :
    /\ verificationTask[t].status = "in_progress" => verificationTask[t].assigned_to # None
    /\ verificationTask[t].status = "pending" => verificationTask[t].assigned_to = None

\* after a reset of the plot's record one task has been assigned again and another is
\* still pending
C30_Witness ==
  /\ \E i \in 1..Len(verificationStatus) :
       /\ verificationStatus[i].content_type = "plot"
       /\ "last_edit" \in DOMAIN verificationStatus[i].stage_details
  /\ \E t \in 1..Len(verificationTask) :
       /\ verificationTask[t].status = "in_progress"
       /\ verificationTask[t].assigned_to \in Staff
  /\ \E t \in 1..Len(verificationTask) :
       /\ verificationTask[t].status = "pending"
       /\ verificationTask[t].assigned_to = None

====
